---- MODULE Spec2Model ----
(***************************************************************************)
(* Trade-Finder: ticker collector + screener (src/main.py).                *)
(*                                                                         *)
(* One run of the script is a sequential program: module import (reads the *)
(* configuration), main() = sheet client, metadata pagination, write of    *)
(* the ticker sheet, grouped-snapshot lookup, prefilter, per-ticker        *)
(* analysis, write of the screener sheet.  The upstream market-data API and *)
(* the spreadsheet are the environment: every response they can give is a  *)
(* nondeterministic input of the action that issues the call.              *)
(*                                                                         *)
(* Numbers: prices are integers (dollars); the extension fractions are in  *)
(* thousandths (0.08 = 80, 0.5 = 500).  A float that can be NaN is a record *)
(* [nan |-> TRUE] or [nan |-> FALSE, v |-> n].                             *)
(***************************************************************************)
EXTENDS Integers, Sequences, FiniteSets, TLC

VARIABLES
    env,            \* process environment: which credentials are set
    pc,             \* position of the run
    abortCause,     \* which statement raised, "" while none did
    out,            \* fetch_all_polygon_meta: raw records gathered, in order; kept
                    \* until write_tickers_sheet has returned
    page,           \* fetch_all_polygon_meta: pages fetched so far by the loop
    lastPageEmpty,  \* fetch_all_polygon_meta: the loop's last page had no results
    meta,           \* main: deduplicated metadata
    all_tickers,    \* main: listing handed to write_tickers_sheet
    tickersSheet,   \* the "tickers" worksheet
    screenerSheet,  \* the "screener" worksheet
    wi,             \* write_*_sheet: offset i of the chunk loop
    probed,         \* fetch_grouped_map: dates probed so far
    gotData,        \* fetch_grouped_map: a probe returned results
    grouped,        \* main: snapshot map, ticker -> [v, c]
    use_grouped,    \* main: bool(grouped)
    filtered,       \* main: sorted(set(filtered))
    subset,         \* main: filtered[:MAX_TICKERS]
    idx,            \* main: symbols of subset already analysed
    rows,           \* main: result rows
    lastNet,        \* last upstream event: "none", "call" or "pause"
    unpacedCall,    \* an upstream call was issued right after another call
    upstreamCalls,  \* upstream market-data requests issued
    sinkCalls,      \* worksheet requests issued (clear, append_row, append_rows)
    require20,      \* configuration: REQUIRE_20D_HIGH
    evPc,           \* analyze_one run on its own: position
    evResp,         \* analyze_one: the bars response of the upstream
    evDf,           \* analyze_one: df
    evInd,          \* analyze_one: the indicator locals, once computed
    evOut           \* analyze_one: returned value

runVars  == <<env, pc, abortCause, out, page, lastPageEmpty, meta, all_tickers,
              tickersSheet, screenerSheet, wi, probed, gotData, grouped,
              use_grouped, filtered, subset, idx, rows, lastNet, unpacedCall,
              upstreamCalls, sinkCalls>>
evalVars == <<evPc, evResp, evDf, evInd, evOut>>
vars     == <<runVars, require20, evalVars>>

-----------------------------------------------------------------------------
(* Bounds of the model *)

MaxPages == 2        \* pages the metadata enumeration may have
MaxRecs  == 4        \* records the metadata enumeration may hold in all

-----------------------------------------------------------------------------
(* Configuration (src/main.py:13-39), defaults unless said otherwise *)

MIN_DAILY_VOL == 300000
MIN_PRICE == 2
ALLOWED_EXCHANGES == {"XNYS", "XNAS", "XASE", "ARCX", "BATS"}
INCLUDE_TYPES == {"CS", "ADRC", "ADRP", "ADRR"}
EXCLUDE_TYPES == {"ETF", "ETN", "FUND", "SP", "PFD", "WRT", "RIGHT", "UNIT", "REIT"}
\* MAX_TICKERS is read from the environment (default 800); the model runs with
\* a cap its universe can exceed.
MAX_TICKERS == 2
DAYS_LOOKBACK == 200
SLEEP_MS_BETWEEN_CALLS == 50
RSI_MIN == 50
RSI_MAX == 65
MAX_EXT_ABOVE_EMA20_PCT == 80
DYNAMIC_EXTENSION == TRUE
EXT_ATR_MULT == 500
MIN_BARS == 60
\* chunk sizes of the two append_rows loops; the code's 1000 and 100 scaled to
\* the model's universe so that a write has more than one chunk.
TICKERS_CHUNK == 2
SCREENER_CHUNK == 1
NUM_PROBE_DATES == 5

None == "None"
CHECK == "check"

Truthy(s) == s # None /\ s # ""

\* str.upper() on the strings the catalog holds
Upper(s) ==
    CASE s = "adrc" -> "ADRC"
      [] s = "xnas" -> "XNAS"
      [] OTHER -> s

\* dict.get(key, default)
Get(rec, key, default) == IF key \in DOMAIN rec THEN rec[key] ELSE default

\* x or ""
OrEmpty(s) == IF Truthy(s) THEN s ELSE ""

Min(a, b) == IF a < b THEN a ELSE b

Range(s) == {s[k] : k \in 1..Len(s)}

\* Python's order on the ticker strings of the model
TickerOrder == <<"AAA", "BBB", "CCC", "DDD">>
Rank(t) == CHOOSE k \in 1..Len(TickerOrder) : TickerOrder[k] = t

RECURSIVE Sorted(_)
\* sorted(S) for a set S of tickers
Sorted(S) ==
    IF S = {} THEN <<>>
    ELSE LET m == CHOOSE x \in S : \A y \in S : Rank(x) <= Rank(y)
         IN <<m>> \o Sorted(S \ {m})

\* s[:n]
Take(s, n) == SubSeq(s, 1, Min(n, Len(s)))

\* polite_sleep(): the upstream event after it
polite_sleep(net) == IF SLEEP_MS_BETWEEN_CALLS > 0 THEN "pause" ELSE net

-----------------------------------------------------------------------------
(* The raw metadata records the upstream may return *)

MetaCatalog ==
    { [ticker |-> "AAA", type |-> "CS",   primary_exchange |-> "XNYS"],
      [ticker |-> "AAA", type |-> "ETF",  primary_exchange |-> "ARCX"],
      [ticker |-> "BBB", type |-> "adrc", primary_exchange |-> "xnas"],
      [ticker |-> "CCC", type |-> "CS",   primary_exchange |-> "XNAS"],
      [ticker |-> "DDD", type |-> "CS"],
      [type |-> "CS", primary_exchange |-> "XNYS"] }

RECURSIVE SeqsUpTo(_, _)
\* all sequences over S of length <= n
SeqsUpTo(S, n) ==
    IF n = 0 THEN {<<>>}
    ELSE LET shorter == SeqsUpTo(S, n - 1)
         IN shorter \cup {Append(s, x) : s \in {t \in shorter : Len(t) = n - 1}, x \in S}

\* lines 87-91: the record appended to out for one raw record
MetaRecord(rec) ==
    [ticker |-> Get(rec, "ticker", None),
     type |-> Upper(OrEmpty(Get(rec, "type", None))),
     primary_exchange |-> Upper(OrEmpty(Get(rec, "primary_exchange", None)))]

RECURSIVE MapSeq(_)
MapSeq(s) == IF s = <<>> THEN <<>> ELSE <<MetaRecord(Head(s))>> \o MapSeq(Tail(s))

RECURSIVE DedupFrom(_, _)
\* lines 96-100 with seen as given
DedupFrom(s, seen) ==
    IF s = <<>> THEN <<>>
    ELSE LET m == Head(s) t == m.ticker
         IN IF Truthy(t) /\ t \notin seen
            THEN <<m>> \o DedupFrom(Tail(s), seen \cup {t})
            ELSE DedupFrom(Tail(s), seen)

\* Dedup without the seen set: every record is kept
Dedup_KeepAll(s) == s

\* lines 96-102: first occurrence of every ticker, in order
Dedup(s) == DedupFrom(s, {})

\* line 258: sorted({m["ticker"] for m in meta if m["ticker"]})
AllTickers(ms) == Sorted({ms[k].ticker : k \in {j \in 1..Len(ms) : Truthy(ms[j].ticker)}})

-----------------------------------------------------------------------------
(* The reporting sink.  A sheet is the sequence of its rows; each row carries *)
(* the run that wrote it, "prev" for what the sheet held before this run.   *)

HeaderRow(run) == [kind |-> "header", run |-> run, val |-> "header"]
DataRow(run, v) == [kind |-> "row", run |-> run, val |-> v]

PrevTickersSheet == <<HeaderRow("prev"), DataRow("prev", "AAA"), DataRow("prev", "DDD")>>
PrevScreenerSheet ==
    <<HeaderRow("prev"),
      DataRow("prev", [Ticker |-> "DDD", Price |-> 7, Breakout |-> "", Bullish |-> CHECK])>>

\* a clear() that leaves the rows in place
Cleared_Keep(sheet) == sheet

\* ws.clear()
Cleared(sheet) == <<>>

\* ws.append_row(header)
WithHeader(sheet) == Append(sheet, HeaderRow("cur"))

RECURSIVE AsRows(_)
AsRows(vals) == IF vals = <<>> THEN <<>> ELSE <<DataRow("cur", Head(vals))>> \o AsRows(Tail(vals))

\* ws.append_rows(rows[i:i+n])
WithChunk(sheet, vals, i, n) ==
    sheet \o AsRows(SubSeq(vals, i + 1, Min(i + n, Len(vals))))

-----------------------------------------------------------------------------
(* Initial state: the process starts with some environment *)

EvalIdle ==
    /\ evPc = "idle" /\ evResp = [kind |-> "unset"] /\ evDf = [kind |-> "unset"]
    /\ evInd = [kind |-> "unset"] /\ evOut = [kind |-> "unset"]

RunStart ==
    /\ pc = "import" /\ abortCause = ""
    /\ out = <<>> /\ page = 0 /\ lastPageEmpty = FALSE
    /\ meta = <<>> /\ all_tickers = <<>>
    /\ tickersSheet = PrevTickersSheet /\ screenerSheet = PrevScreenerSheet
    /\ wi = 0
    /\ probed = 0 /\ gotData = FALSE /\ grouped = <<>> /\ use_grouped = FALSE
    /\ filtered = <<>> /\ subset = <<>> /\ idx = 0 /\ rows = <<>>
    /\ lastNet = "none" /\ unpacedCall = FALSE
    /\ upstreamCalls = 0 /\ sinkCalls = 0

Init ==
    /\ env \in [polygonKey : BOOLEAN, googleCreds : BOOLEAN]
    /\ RunStart
    /\ require20 = TRUE
    /\ EvalIdle

\* an exception that reaches the try/except of __main__ (lines 300-305)
Raise(cause) == pc' = "fatal" /\ abortCause' = cause

\* what an upstream request does to the pacing record
Request ==
    /\ upstreamCalls' = upstreamCalls + 1
    /\ unpacedCall' = (unpacedCall \/ lastNet = "call")

-----------------------------------------------------------------------------
(* Module import and main() up to the metadata fetch *)

\* lines 17-19: the module-level check of POLYGON_API_KEY; the RuntimeError is
\* raised outside any try, so the interpreter ends the process.
ImportModule ==
    /\ pc = "import"
    /\ IF env.polygonKey
       THEN pc' = "main" /\ abortCause' = abortCause
       ELSE pc' = "crashed" /\ abortCause' = "import"
    /\ UNCHANGED <<env, out, page, lastPageEmpty, meta, all_tickers, tickersSheet,
                   screenerSheet, wi, probed, gotData, grouped, use_grouped,
                   filtered, subset, idx, rows, lastNet, unpacedCall,
                   upstreamCalls, sinkCalls, require20, evalVars>>

\* lines 44-46, 254: json.loads(os.getenv("GOOGLE_CREDS_JSON")) raises a
\* TypeError on None, inside main().
GetGoogleClient ==
    /\ pc = "main"
    /\ IF env.googleCreds
       THEN pc' = "meta" /\ abortCause' = abortCause
       ELSE Raise("creds")
    /\ UNCHANGED <<env, out, page, lastPageEmpty, meta, all_tickers, tickersSheet,
                   screenerSheet, wi, probed, gotData, grouped, use_grouped,
                   filtered, subset, idx, rows, lastNet, unpacedCall,
                   upstreamCalls, sinkCalls, require20, evalVars>>

\* Exit status of the process (lines 299-305): an exception main() raises is
\* caught and printed, and the script then ends normally.
ExitStatus == IF pc = "crashed" THEN 1 ELSE 0
Exited == pc \in {"done", "fatal", "crashed"}

\* lines 83-95, one iteration of the while loop, and lines 96-102, 258 after the
\* last one.  ok = FALSE: requests.get or raise_for_status raises.  page and
\* the emptiness of the last page are locals of the loop and are gone when the
\* function returns; out is kept on as the record of the raw enumeration.
MetaPage ==
    /\ pc = "meta"
    /\ page < MaxPages
    /\ Request
    /\ \E ok \in BOOLEAN :
         IF ~ok
         THEN /\ Raise("meta")
              /\ lastNet' = "call"
              /\ page' = page
              /\ UNCHANGED <<out, lastPageEmpty, meta, all_tickers>>
         ELSE \E results \in SeqsUpTo(MetaCatalog, MaxRecs - Len(out)),
                 next_url \in IF page + 1 < MaxPages THEN BOOLEAN ELSE {FALSE} :
                /\ out' = out \o MapSeq(results)
                /\ lastNet' = polite_sleep("call")
                /\ abortCause' = abortCause
                /\ IF next_url
                   THEN /\ page' = page + 1
                        /\ lastPageEmpty' = (results = <<>>)
                        /\ pc' = "meta"
                        /\ UNCHANGED <<meta, all_tickers>>
                   ELSE /\ page' = 0
                        /\ lastPageEmpty' = FALSE
                        /\ meta' = Dedup(out')
                        /\ all_tickers' = AllTickers(meta')
                        /\ pc' = "tickers_clear"
    /\ UNCHANGED <<env, tickersSheet, screenerSheet, wi, probed, gotData, grouped,
                   use_grouped, filtered, subset, idx, rows, sinkCalls,
                   require20, evalVars>>

-----------------------------------------------------------------------------
(* write_tickers_sheet (lines 48-55).  The record of the raw enumeration, *)
(* out, is dropped when the listing has been written.                    *)

\* lines 49-50: open the worksheet and clear it
TickersClear ==
    /\ pc = "tickers_clear"
    /\ \E ok \in BOOLEAN :
         IF ok
         THEN /\ tickersSheet' = Cleared(tickersSheet)
              /\ sinkCalls' = sinkCalls + 1
              /\ pc' = "tickers_header" /\ abortCause' = abortCause
         ELSE Raise("sink") /\ UNCHANGED <<tickersSheet, sinkCalls>>
    /\ UNCHANGED <<env, out, page, lastPageEmpty, meta, all_tickers, screenerSheet,
                   wi, probed, gotData, grouped, use_grouped, filtered, subset,
                   idx, rows, lastNet, unpacedCall, upstreamCalls, require20,
                   evalVars>>

\* line 51
TickersHeader ==
    /\ pc = "tickers_header"
    /\ \E ok \in BOOLEAN :
         IF ok
         THEN /\ tickersSheet' = WithHeader(tickersSheet)
              /\ sinkCalls' = sinkCalls + 1
              /\ wi' = 0
              /\ pc' = IF Len(all_tickers) > 0 THEN "tickers_rows" ELSE "grouped"
              /\ out' = IF pc' = "grouped" THEN <<>> ELSE out
              /\ abortCause' = abortCause
         ELSE Raise("sink") /\ UNCHANGED <<tickersSheet, sinkCalls, wi, out>>
    /\ UNCHANGED <<env, page, lastPageEmpty, meta, all_tickers, screenerSheet,
                   probed, gotData, grouped, use_grouped, filtered, subset,
                   idx, rows, lastNet, unpacedCall, upstreamCalls, require20,
                   evalVars>>

\* lines 53-54, one iteration
TickersChunk ==
    /\ pc = "tickers_rows"
    /\ wi < Len(all_tickers)
    /\ \E ok \in BOOLEAN :
         IF ok
         THEN /\ tickersSheet' = WithChunk(tickersSheet, all_tickers, wi, TICKERS_CHUNK)
              /\ sinkCalls' = sinkCalls + 1
              /\ wi' = wi + TICKERS_CHUNK
              /\ pc' = IF wi' < Len(all_tickers) THEN "tickers_rows" ELSE "grouped"
              /\ out' = IF pc' = "grouped" THEN <<>> ELSE out
              /\ abortCause' = abortCause
         ELSE Raise("sink") /\ UNCHANGED <<tickersSheet, sinkCalls, wi, out>>
    /\ UNCHANGED <<env, page, lastPageEmpty, meta, all_tickers, screenerSheet,
                   probed, gotData, grouped, use_grouped, filtered, subset,
                   idx, rows, lastNet, unpacedCall, upstreamCalls, require20,
                   evalVars>>

-----------------------------------------------------------------------------
(* fetch_grouped_map (lines 104-129) *)

\* the results lists a grouped-snapshot request may return
GroupedCatalog ==
    { << [T |-> "AAA", v |-> 300000, c |-> 2],
         [T |-> "BBB", v |-> 299999, c |-> 5],
         [T |-> "CCC", v |-> 500000, c |-> 1] >>,
      << [T |-> "AAA", c |-> 3],
         [T |-> "BBB", v |-> 0, c |-> 2],
         [v |-> 900000, c |-> 9],
         [T |-> "BBB", v |-> 400000, c |-> 2] >>,
      << [v |-> 900000, c |-> 9] >> }

ProbeOutcomes ==
    {[kind |-> "fail"], [kind |-> "empty"]}
        \cup {[kind |-> "data", res |-> r] : r \in GroupedCatalog}

\* m[t] = value
Put(m, t, value) == [x \in DOMAIN m \cup {t} |-> IF x = t THEN value ELSE m[x]]

RECURSIVE BuildMapFrom(_, _)
\* lines 119-122 with m as given
BuildMapFrom(res, m) ==
    IF res = <<>> THEN m
    ELSE LET rec == Head(res) t == Get(rec, "T", None)
         IN IF ~Truthy(t)
            THEN BuildMapFrom(Tail(res), m)
            ELSE BuildMapFrom(Tail(res),
                              Put(m, t, [v |-> Get(rec, "v", 0), c |-> Get(rec, "c", 0)]))

\* lines 118-122
BuildMap(res) == BuildMapFrom(res, <<>>)

\* bool(grouped), line 262
Bool(m) == DOMAIN m # {}

\* lines 111-129, one iteration of the loop over last_trading_dates_utc(), the
\* date probed being today - (probed + 1) days; and lines 128-129, 262 after the
\* last one.
GroupedProbe ==
    /\ pc = "grouped"
    /\ probed < NUM_PROBE_DATES
    /\ Request
    /\ probed' = probed + 1
    /\ \E o \in ProbeOutcomes :
         IF o.kind = "data"
         THEN /\ grouped' = BuildMap(o.res)
              /\ use_grouped' = Bool(grouped')
              /\ gotData' = TRUE
              /\ lastNet' = "call"
              /\ pc' = "filter"
         ELSE /\ grouped' = <<>>
              /\ use_grouped' = FALSE
              /\ gotData' = FALSE
              /\ lastNet' = polite_sleep("call")
              /\ pc' = IF probed' < NUM_PROBE_DATES THEN "grouped" ELSE "filter"
    /\ UNCHANGED <<env, abortCause, out, page, lastPageEmpty, meta, all_tickers,
                   tickersSheet, screenerSheet, wi, filtered, subset, idx, rows,
                   sinkCalls, require20, evalVars>>

-----------------------------------------------------------------------------
(* main(): prefilter and bounded subset (lines 264-287) *)

\* lines 266-272: the type/exchange classify filter on one metadata record
Classify(m) ==
    LET t == m.ticker
        typ == Upper(OrEmpty(m.type))
        ex == Upper(OrEmpty(m.primary_exchange))
    IN /\ Truthy(t) /\ Truthy(typ) /\ Truthy(ex)
       /\ ~(typ \in EXCLUDE_TYPES \/ typ \notin INCLUDE_TYPES)
       /\ ex \in ALLOWED_EXCHANGES

\* SnapshotPass without the price floor
SnapshotPass_VolumeOnly(g, t) == t \in DOMAIN g /\ ~(g[t].v < MIN_DAILY_VOL)

\* lines 274-280: the liquidity/price gates on the snapshot entry of t
SnapshotPass(g, t) ==
    /\ t \in DOMAIN g
    /\ ~(g[t].v < MIN_DAILY_VOL)
    /\ ~(g[t].c < MIN_PRICE)

\* Keep with the snapshot gates applied whether or not a snapshot was obtained
Keep_SnapshotAlways(m, g, ug) == Classify(m) /\ SnapshotPass(g, m.ticker)

\* lines 266-281: filtered.append(t) is reached for m
Keep(m, g, ug) == Classify(m) /\ (ug => SnapshotPass(g, m.ticker))

RECURSIVE FilterMeta(_, _, _)
\* lines 264-281: the list filtered, in the order of meta
FilterMeta(ms, g, ug) ==
    IF ms = <<>> THEN <<>>
    ELSE IF Keep(Head(ms), g, ug)
         THEN <<Head(ms).ticker>> \o FilterMeta(Tail(ms), g, ug)
         ELSE FilterMeta(Tail(ms), g, ug)

\* line 283
SortedSet(list) == Sorted(Range(list))

\* BoundSubset with the slice one too long
BoundSubset_OffByOne(f) == Take(f, MAX_TICKERS + 1)

\* line 286
BoundSubset(f) == Take(f, MAX_TICKERS)

Prefilter ==
    /\ pc = "filter"
    /\ filtered' = SortedSet(FilterMeta(meta, grouped, use_grouped))
    /\ subset' = BoundSubset(filtered')
    /\ rows' = <<>>
    /\ idx' = 0
    /\ pc' = IF Len(subset') > 0 THEN "analyze" ELSE "screener_clear"
    /\ UNCHANGED <<env, abortCause, out, page, lastPageEmpty, meta, all_tickers,
                   tickersSheet, screenerSheet, wi, probed, gotData, grouped,
                   use_grouped, lastNet, unpacedCall, upstreamCalls, sinkCalls,
                   require20, evalVars>>

-----------------------------------------------------------------------------
(* fetch_daily_bars_df and analyze_one (lines 131-146, 179-247)            *)
(*                                                                         *)
(* A bars response is [kind |-> "error"] (the request, raise_for_status or *)
(* the decoding of the body raises), [kind |-> "empty"] (no results), or   *)
(* [kind |-> "bars", ...]: n records with the keys `keys`, described by the *)
(* values the indicator functions give on the last row of the series.      *)

NaN == [nan |-> TRUE]
Num(x) == [nan |-> FALSE, v |-> x]

AllKeys == {"o", "h", "l", "c", "v", "t"}

\* the None that fetch_daily_bars_df returns
NoFrame == [kind |-> "None"]

\* line 141: df.rename(columns=...)
Rename(k) ==
    CASE k = "c" -> "close" [] k = "o" -> "open" [] k = "h" -> "high"
      [] k = "l" -> "low" [] k = "v" -> "volume" [] k = "t" -> "timestamp"
      [] OTHER -> k

\* lines 136-144: the value fetch_daily_bars_df returns (None, or the frame of
\* the last `days` rows with the columns renamed)
fetch_daily_bars_df(resp, days) ==
    IF resp.kind # "bars" THEN NoFrame
    ELSE [kind |-> "df", n |-> Min(resp.n, days),
          columns |-> {Rename(k) : k \in resp.keys},
          lastVol |-> resp.lastVol, price |-> resp.price, ema20 |-> resp.ema20,
          sma50 |-> resp.sma50, rsi14 |-> resp.rsi14, macd_v |-> resp.macd_v,
          signal_v |-> resp.signal_v, hist_prev |-> resp.hist_prev,
          high_20 |-> resp.high_20, atr20 |-> resp.atr20]

\* line 181
TooShort(df) == df = NoFrame \/ df.n < MIN_BARS

\* line 184
NoVolume(df) == "volume" \notin df.columns \/ df.lastVol <= 0

\* lines 187-211 raise a KeyError: df["close"], and df["high"], df["low"] in atr()
MissingColumn(df) ==
    \/ "close" \notin df.columns
    \/ DYNAMIC_EXTENSION /\ ({"high", "low"} \subseteq df.columns) = FALSE

Max(a, b) == IF a > b THEN a ELSE b

\* lines 187-211: the locals of analyze_one.  allowed_ext and ext are the
\* fractions of the code times 1000 * ema20 (ema20 > 0 on positive closes).
Indicators(df) ==
    LET hist_v == df.macd_v - df.signal_v
        static == MAX_EXT_ABOVE_EMA20_PCT * df.ema20
    IN [kind |-> "locals", price |-> df.price, ema20 |-> df.ema20, sma50 |-> df.sma50,
        rsi14 |-> df.rsi14, macd_v |-> df.macd_v, signal_v |-> df.signal_v,
        hist_v |-> hist_v,
        hist_delta |-> IF df.n >= 2 THEN Num(hist_v - df.hist_prev) ELSE NaN,
        high_20 |-> df.high_20,
        is_breakout |-> (df.price >= df.high_20),
        ext |-> 1000 * (df.price - df.ema20),
        allowed_ext |-> IF DYNAMIC_EXTENSION /\ ~df.atr20.nan /\ df.ema20 > 0
                        THEN Max(static, EXT_ATR_MULT * df.atr20.v)
                        ELSE static]

\* line 213
TrendGate(ind) == ind.price > ind.ema20 /\ ind.ema20 > ind.sma50
\* line 215
ExtensionGate(ind) == ~(ind.ext > ind.allowed_ext)
\* RsiGate with the band closed at both ends
RsiGate_Inclusive(ind) == ~ind.rsi14.nan /\ RSI_MIN <= ind.rsi14.v /\ ind.rsi14.v <= RSI_MAX
\* line 217
RsiGate(ind) == ~ind.rsi14.nan /\ RSI_MIN < ind.rsi14.v /\ ind.rsi14.v < RSI_MAX
\* line 219
MacdGate(ind) ==
    /\ ind.macd_v > ind.signal_v
    /\ ind.hist_v > 0
    /\ ~ind.hist_delta.nan /\ ind.hist_delta.v > 0
\* line 221
BreakoutGate(ind, req) == ~(req /\ ~ind.is_breakout)

\* lines 213-222: no gate returns None
GatesPass(ind, req) ==
    /\ TrendGate(ind)
    /\ ExtensionGate(ind)
    /\ RsiGate(ind)
    /\ MacdGate(ind)
    /\ BreakoutGate(ind, req)

\* lines 230-246: the columns of the row the claims speak of
Row(ticker, ind) ==
    [Ticker |-> ticker, Price |-> ind.price,
     Breakout |-> IF ind.is_breakout THEN CHECK ELSE "",
     Bullish |-> CHECK]

Reject == [kind |-> "none"]
KeyError == [kind |-> "raise"]
Emit(row) == [kind |-> "row", row |-> row]

\* lines 179-247: what analyze_one(ticker) does on the response resp
analyze_one(ticker, resp, req) ==
    LET df == fetch_daily_bars_df(resp, DAYS_LOOKBACK)
    IN IF TooShort(df) THEN Reject
       ELSE IF NoVolume(df) THEN Reject
       ELSE IF MissingColumn(df) THEN KeyError
       ELSE IF ~GatesPass(Indicators(df), req) THEN Reject
       ELSE Emit(Row(ticker, Indicators(df)))

Bars(n, keys, lastVol, price, sma50, rsi14, signal_v, hist_prev, high_20, atr20) ==
    [kind |-> "bars", n |-> n, keys |-> keys, lastVol |-> lastVol, price |-> price,
     ema20 |-> 100, sma50 |-> sma50, rsi14 |-> rsi14, macd_v |-> 3,
     signal_v |-> signal_v, hist_prev |-> hist_prev, high_20 |-> high_20,
     atr20 |-> atr20]

\* the bars responses the orchestrator is run against
BarsCatalog ==
    { [kind |-> "error"],
      [kind |-> "empty"],
      Bars(59, AllKeys, 1000, 108, 99, Num(57), 2, 0, 108, Num(10)),
      Bars(250, AllKeys, 1000, 108, 99, Num(57), 2, 0, 108, Num(10)),
      Bars(250, AllKeys, 1000, 108, 99, Num(65), 2, 0, 108, Num(10)),
      Bars(250, AllKeys \ {"c"}, 1000, 108, 99, Num(57), 2, 0, 108, Num(10)) }

\* lines 289-292, one iteration: analyze_one(t) = the upstream request, the
\* pause of its finally clause, and the analysis of the frame.
Analyze ==
    /\ pc = "analyze"
    /\ idx < Len(subset)
    /\ Request
    /\ lastNet' = polite_sleep("call")
    /\ \E resp \in BarsCatalog :
         LET r == analyze_one(subset[idx + 1], resp, require20)
         IN IF r.kind = "raise"
            THEN Raise("analyze") /\ UNCHANGED <<idx, rows>>
            ELSE /\ rows' = IF r.kind = "row" THEN Append(rows, r.row) ELSE rows
                 /\ idx' = idx + 1
                 /\ pc' = IF idx' < Len(subset) THEN "analyze" ELSE "screener_clear"
                 /\ abortCause' = abortCause
    /\ UNCHANGED <<env, out, page, lastPageEmpty, meta, all_tickers, tickersSheet,
                   screenerSheet, wi, probed, gotData, grouped, use_grouped,
                   filtered, subset, sinkCalls, require20, evalVars>>

-----------------------------------------------------------------------------
(* write_screener_sheet (lines 57-68) *)

\* lines 58-59
ScreenerClear ==
    /\ pc = "screener_clear"
    /\ \E ok \in BOOLEAN :
         IF ok
         THEN /\ screenerSheet' = Cleared(screenerSheet)
              /\ sinkCalls' = sinkCalls + 1
              /\ pc' = "screener_header" /\ abortCause' = abortCause
         ELSE Raise("sink") /\ UNCHANGED <<screenerSheet, sinkCalls>>
    /\ UNCHANGED <<env, out, page, lastPageEmpty, meta, all_tickers, tickersSheet,
                   wi, probed, gotData, grouped, use_grouped, filtered, subset,
                   idx, rows, lastNet, unpacedCall, upstreamCalls, require20,
                   evalVars>>

\* lines 60-65
ScreenerHeader ==
    /\ pc = "screener_header"
    /\ \E ok \in BOOLEAN :
         IF ok
         THEN /\ screenerSheet' = WithHeader(screenerSheet)
              /\ sinkCalls' = sinkCalls + 1
              /\ wi' = 0
              /\ pc' = IF Len(rows) > 0 THEN "screener_rows" ELSE "done"
              /\ abortCause' = abortCause
         ELSE Raise("sink") /\ UNCHANGED <<screenerSheet, sinkCalls, wi>>
    /\ UNCHANGED <<env, out, page, lastPageEmpty, meta, all_tickers, tickersSheet,
                   probed, gotData, grouped, use_grouped, filtered, subset,
                   idx, rows, lastNet, unpacedCall, upstreamCalls, require20,
                   evalVars>>

\* lines 66-67, one iteration
ScreenerChunk ==
    /\ pc = "screener_rows"
    /\ wi < Len(rows)
    /\ \E ok \in BOOLEAN :
         IF ok
         THEN /\ screenerSheet' = WithChunk(screenerSheet, rows, wi, SCREENER_CHUNK)
              /\ sinkCalls' = sinkCalls + 1
              /\ wi' = wi + SCREENER_CHUNK
              /\ pc' = IF wi' < Len(rows) THEN "screener_rows" ELSE "done"
              /\ abortCause' = abortCause
         ELSE Raise("sink") /\ UNCHANGED <<screenerSheet, sinkCalls, wi>>
    /\ UNCHANGED <<env, out, page, lastPageEmpty, meta, all_tickers, tickersSheet,
                   probed, gotData, grouped, use_grouped, filtered, subset,
                   idx, rows, lastNet, unpacedCall, upstreamCalls, require20,
                   evalVars>>

-----------------------------------------------------------------------------
(* The run *)

Next ==
    \/ ImportModule
    \/ GetGoogleClient
    \/ MetaPage
    \/ TickersClear
    \/ TickersHeader
    \/ TickersChunk
    \/ GroupedProbe
    \/ Prefilter
    \/ Analyze
    \/ ScreenerClear
    \/ ScreenerHeader
    \/ ScreenerChunk

Spec == Init /\ [][Next]_vars

-----------------------------------------------------------------------------
(* analyze_one on its own: the evaluator run, statement by statement, on   *)
(* every bars response of a bounded set, under either setting of           *)
(* REQUIRE_20D_HIGH.                                                       *)

EvalTicker == "AAA"

EvalResponses ==
    {[kind |-> "error"], [kind |-> "empty"]}
        \cup { Bars(n, keys, lastVol, price, sma50, rsi14, signal_v, hist_prev,
                    price + gap, atr20) :
                 n \in {1, 59, 60, 250},
                 keys \in {AllKeys, AllKeys \ {"v"}, AllKeys \ {"c"}, AllKeys \ {"h"}},
                 lastVol \in {0, 1000},
                 price \in {100, 108, 110},
                 sma50 \in {99, 100},
                 rsi14 \in {NaN, Num(50), Num(57), Num(65)},
                 signal_v \in {2, 3},
                 hist_prev \in {0, 1},
                 gap \in {0, 5},
                 atr20 \in {NaN, Num(10), Num(30)} }

InitEval ==
    /\ env = [polygonKey |-> TRUE, googleCreds |-> TRUE]
    /\ RunStart
    /\ require20 \in BOOLEAN
    /\ evPc = "fetch"
    /\ evResp \in EvalResponses
    /\ evDf = [kind |-> "unset"]
    /\ evInd = [kind |-> "unset"]
    /\ evOut = [kind |-> "unset"]

\* line 180
EvalFetch ==
    /\ evPc = "fetch"
    /\ evDf' = fetch_daily_bars_df(evResp, DAYS_LOOKBACK)
    /\ evPc' = "guards"
    /\ UNCHANGED <<runVars, require20, evResp, evInd, evOut>>

\* lines 181-185
EvalGuards ==
    /\ evPc = "guards"
    /\ IF TooShort(evDf) \/ NoVolume(evDf)
       THEN evOut' = Reject /\ evPc' = "returned"
       ELSE evOut' = evOut /\ evPc' = "indicators"
    /\ UNCHANGED <<runVars, require20, evResp, evDf, evInd>>

\* lines 187-211
EvalIndicators ==
    /\ evPc = "indicators"
    /\ IF MissingColumn(evDf)
       THEN evOut' = KeyError /\ evPc' = "raised" /\ evInd' = evInd
       ELSE evInd' = Indicators(evDf) /\ evPc' = "gates" /\ evOut' = evOut
    /\ UNCHANGED <<runVars, require20, evResp, evDf>>

\* lines 213-247
EvalGates ==
    /\ evPc = "gates"
    /\ evOut' = IF GatesPass(evInd, require20) THEN Emit(Row(EvalTicker, evInd)) ELSE Reject
    /\ evPc' = "returned"
    /\ UNCHANGED <<runVars, require20, evResp, evDf, evInd>>

NextEval ==
    \/ EvalFetch
    \/ EvalGuards
    \/ EvalIndicators
    \/ EvalGates

SpecEval == InitEval /\ [][NextEval]_vars

-----------------------------------------------------------------------------
(* Properties *)

\* main() is past the prefilter (line 287 and after)
AfterPrefilter ==
    pc \in {"analyze", "screener_clear", "screener_header", "screener_rows", "done"}

\* write_tickers_sheet has returned
TickersWritten ==
    pc \in {"grouped", "filter", "analyze", "screener_clear", "screener_header",
            "screener_rows", "done"}

\* the complete output of the current run on each sheet
FullTickersSheet == <<HeaderRow("cur")>> \o AsRows(all_tickers)
FullScreenerSheet == <<HeaderRow("cur")>> \o AsRows(rows)

IsPrefix(s, t) == Len(s) <= Len(t) /\ s = SubSeq(t, 1, Len(s))

NoDuplicates(s) == \A a, b \in 1..Len(s) : a # b => s[a] # s[b]

Ascending(s) == \A a, b \in 1..Len(s) : a < b => Rank(s[a]) < Rank(s[b])

\* index of the first record of the raw enumeration that carries ticker t
FirstSeen(t) == CHOOSE k \in 1..Len(out) : out[k].ticker = t /\ \A j \in 1..(k - 1) : out[j].ticker # t

RawTickers == {out[k].ticker : k \in {j \in 1..Len(out) : Truthy(out[j].ticker)}}

\* C1: a metadata page fetch that fails or returns an empty page ends the
\* pagination early and is not fatal: no run is aborted by a failed page fetch,
\* and the pagination loop is not continued after an empty page.
C1_PageFailureNotFatal ==
    /\ abortCause # "meta"
    /\ pc = "meta" => ~lastPageEmpty

\* C2: whatever the bars fetch of a symbol gives (failure, time-out, no data,
\* records that cannot be parsed), only that symbol is skipped: the analysis of
\* a symbol never aborts the run, and the screener is written only after every
\* symbol of the subset was analysed.
C2_SymbolFailureSkipped ==
    /\ abortCause # "analyze"
    /\ pc \in {"screener_clear", "screener_header", "screener_rows", "done"}
          => idx = Len(subset)

\* C3: the snapshot lookup probes at most NUM_PROBE_DATES dates and stops at
\* the first one that returns data; when all of them fail or return nothing the
\* run goes on with the prefilter off, and the filtered universe is exactly the
\* set of symbols that pass the type/exchange classify filter.
C3_PrefilterDegradation ==
    /\ probed <= NUM_PROBE_DATES
    /\ pc = "grouped" => ~gotData /\ probed < NUM_PROBE_DATES
    /\ (pc = "filter" \/ AfterPrefilter) /\ ~gotData =>
          /\ probed = NUM_PROBE_DATES
          /\ ~use_grouped
          /\ abortCause = ""
    /\ AfterPrefilter /\ ~gotData =>
          /\ Range(filtered) = {meta[k].ticker : k \in {j \in 1..Len(meta) : Classify(meta[j])}}
          /\ Len(filtered) = Cardinality({j \in 1..Len(meta) : Classify(meta[j])})

C3_Witness ==
    /\ pc = "analyze"
    /\ ~gotData /\ probed = NUM_PROBE_DATES
    /\ Len(filtered) >= 2
    /\ Len(meta) > Len(filtered)

\* C4: with a required credential absent (POLYGON_API_KEY or
\* GOOGLE_CREDS_JSON) the run aborts before any work: no upstream call, no clear
\* or write on either sheet, and a non-zero exit status.
C4_MissingCredentialAborts ==
    (~env.polygonKey \/ ~env.googleCreds) =>
        /\ upstreamCalls = 0
        /\ sinkCalls = 0
        /\ tickersSheet = PrevTickersSheet /\ screenerSheet = PrevScreenerSheet
        /\ Exited => ExitStatus # 0

\* C5 as stated: at every point of every run each sheet holds either the
\* complete output of the previous run or the complete output of this run.
C5_AtomicSink ==
    /\ tickersSheet = PrevTickersSheet \/ tickersSheet = FullTickersSheet
    /\ screenerSheet = PrevScreenerSheet \/ screenerSheet = FullScreenerSheet

\* C5 as amended: each sheet is rewritten clear-then-write.  At every point of
\* every run a sheet holds either the complete output of the previous run, or
\* rows of this run only: a prefix (empty right after the clear) of this run's
\* complete output, in order.  Rows of two runs are never mixed in a sheet, and
\* a write that returned has left the complete output.
C5_ClearThenWrite ==
    /\ tickersSheet = PrevTickersSheet \/ IsPrefix(tickersSheet, FullTickersSheet)
    /\ screenerSheet = PrevScreenerSheet \/ IsPrefix(screenerSheet, FullScreenerSheet)
    /\ \A k \in 1..Len(tickersSheet) : tickersSheet[k].run = tickersSheet[1].run
    /\ \A k \in 1..Len(screenerSheet) : screenerSheet[k].run = screenerSheet[1].run
    /\ TickersWritten => tickersSheet = FullTickersSheet
    /\ pc = "done" => screenerSheet = FullScreenerSheet

\* a run that failed between two chunks of the ticker sheet
C5_Witness ==
    /\ pc = "fatal" /\ abortCause = "sink"
    /\ Len(tickersSheet) = 1 + TICKERS_CHUNK
    /\ Len(all_tickers) > TICKERS_CHUNK
    /\ tickersSheet[1].run = "cur"
    /\ screenerSheet = PrevScreenerSheet

\* C6: every upstream call is followed by a pause before the next upstream
\* call is issued, whatever its outcome.
C6_EveryCallPaced == ~unpacedCall

\* write_tickers_sheet(gc, all_tickers) has been called and has not returned
ListingHandedOver == pc \in {"tickers_clear", "tickers_header", "tickers_rows"}

FilteredSet == {meta[k].ticker : k \in {j \in 1..Len(meta) : Keep(meta[j], grouped, use_grouped)}}

\* C9: the subset handed to the per-ticker evaluation has no duplicates, is
\* sorted ascending, has at most MAX_TICKERS symbols, and is exactly the first
\* min(MAX_TICKERS, |filtered|) symbols of the sorted filtered universe: it is
\* determined by the set of filtered symbols alone, whatever the order and the
\* repetitions of the metadata pages.  The symbols are analysed in that order.
C9_BoundSubset ==
    AfterPrefilter =>
        LET F == FilteredSet
        IN
        /\ NoDuplicates(subset)
        /\ Ascending(subset)
        /\ Len(subset) <= MAX_TICKERS
        /\ Len(subset) = Min(MAX_TICKERS, Cardinality(F))
        /\ Range(subset) \subseteq F
        /\ \A x \in F \ Range(subset), y \in Range(subset) : Rank(y) < Rank(x)
        /\ Range(filtered) = F /\ Ascending(filtered)
        /\ idx <= Len(subset)
        /\ \A k \in 1..Len(rows) : \E j \in 1..idx : rows[k].Ticker = subset[j]

\* more filtered symbols than the cap, discovered out of symbol order
C9_Witness ==
    /\ pc = "screener_clear"
    /\ Cardinality(FilteredSet) > MAX_TICKERS
    /\ Len(subset) = MAX_TICKERS
    /\ Rank(meta[1].ticker) > Rank(meta[2].ticker)
    /\ idx = Len(subset)

\* C10: with a grouped snapshot (prefilter on), a symbol is in the filtered
\* universe exactly when it passes the classify filter, has a snapshot entry,
\* and its snapshot volume is >= MIN_DAILY_VOL and its snapshot close is >=
\* MIN_PRICE.
C10_SnapshotPrefilter ==
    AfterPrefilter /\ use_grouped =>
        /\ Range(filtered) \subseteq {meta[k].ticker : k \in 1..Len(meta)}
        /\ \A k \in 1..Len(meta) :
              LET t == meta[k].ticker
              IN t \in Range(filtered) <=>
                   /\ Classify(meta[k])
                   /\ t \in DOMAIN grouped
                   /\ grouped[t].v >= MIN_DAILY_VOL
                   /\ grouped[t].c >= MIN_PRICE

\* one symbol kept at exactly the two floors, one dropped for its close alone
C10_Witness ==
    /\ AfterPrefilter /\ use_grouped
    /\ \E k \in 1..Len(meta) :
          /\ meta[k].ticker \in Range(filtered)
          /\ grouped[meta[k].ticker].v = MIN_DAILY_VOL
          /\ grouped[meta[k].ticker].c = MIN_PRICE
    /\ \E k \in 1..Len(meta) :
          /\ Classify(meta[k])
          /\ meta[k].ticker \in DOMAIN grouped
          /\ meta[k].ticker \notin Range(filtered)
          /\ grouped[meta[k].ticker].v >= MIN_DAILY_VOL

\* the bars response carries every field of a daily bar
WellFormed(resp) == resp.kind = "bars" => resp.keys = AllKeys

\* the conditions of C7 on the bars response itself
C7_Conditions(resp, req) ==
    /\ resp.kind = "bars"
    /\ resp.n >= MIN_BARS
    /\ "v" \in resp.keys /\ resp.lastVol > 0
    /\ resp.price > resp.ema20 /\ resp.ema20 > resp.sma50
    /\ \/ 1000 * (resp.price - resp.ema20) <= MAX_EXT_ABOVE_EMA20_PCT * resp.ema20
       \/ /\ DYNAMIC_EXTENSION /\ ~resp.atr20.nan
          /\ 1000 * (resp.price - resp.ema20) <= EXT_ATR_MULT * resp.atr20.v
    /\ ~resp.rsi14.nan /\ resp.rsi14.v > RSI_MIN /\ resp.rsi14.v < RSI_MAX
    /\ resp.macd_v > resp.signal_v
    /\ resp.macd_v - resp.signal_v > 0
    /\ (resp.macd_v - resp.signal_v) - resp.hist_prev > 0
    /\ req => resp.price >= resp.high_20

\* C7: analyze_one emits a row, always marked bullish, only for a series of at
\* least MIN_BARS bars whose last volume is > 0 and that passes every enabled
\* gate; in every other case no row is emitted, and on a series that carries
\* every bar field None is returned; on a series shorter than MIN_BARS None is
\* returned before any indicator is computed.
C7_EvaluatorGates ==
    /\ evOut.kind = "row" =>
          /\ C7_Conditions(evResp, require20)
          /\ evOut.row.Bullish = CHECK
          /\ evOut.row.Ticker = EvalTicker
    /\ evPc \in {"returned", "raised"} /\ ~C7_Conditions(evResp, require20) =>
          /\ evOut.kind # "row"
          /\ WellFormed(evResp) => evPc = "returned" /\ evOut = Reject
    /\ evPc = "returned" /\ C7_Conditions(evResp, require20) /\ WellFormed(evResp) =>
          evOut.kind = "row"
    /\ evResp.kind # "bars" \/ evResp.n < MIN_BARS =>
          /\ evInd.kind = "unset"
          /\ evPc \notin {"indicators", "gates", "raised"}
          /\ evPc = "returned" => evOut = Reject

\* a row emitted on the strength of the ATR-based extension and of the breakout
C7_Witness ==
    /\ evPc = "returned" /\ evOut.kind = "row"
    /\ require20
    /\ evResp.n > DAYS_LOOKBACK
    /\ evInd.ext > MAX_EXT_ABOVE_EMA20_PCT * evInd.ema20
    /\ evOut.row.Breakout = CHECK

====
